---- MODULE Spec2Model ----
(***************************************************************************)
(* A model of librime-userdb-cleaner (src/src/userdb_cleaner.cc).          *)
(*                                                                         *)
(* Text is modelled as sequences of one-character strings, a file as the   *)
(* sequence of its bytes.  Three specifications share the definitions:     *)
(*   SpecCompact     the rewrite loop of clean_userdb_files applied to a   *)
(*                   file drawn from a bounded universe (pure functions);  *)
(*   Spec            the cleanup pass as a state machine over a file       *)
(*                   system, passes started one after another;             *)
(*   SpecConcurrent  the same machine with the trigger free to fire while  *)
(*                   a pass is in flight.                                  *)
(***************************************************************************)
EXTENDS Integers, Sequences, FiniteSets, TLC

VARIABLES
    \* ---- SpecCompact: one file pushed through the rewrite loop ----------
    clines,     \* the lines the input file was assembled from
    cfile,      \* the bytes of the file as it is now
    cprev,      \* the bytes of the file before the latest pass
    cdeleted,   \* deleted_words of the latest pass
    ccount,     \* delete_item_count of the latest pass
    cpass,      \* number of passes applied so far
    \* ---- the cleanup pass over a file system ----------------------------
    cleanup_userdb_list_,  \* UserdbCleaner: the configured allow-list
    dirkind,    \* candidate sync directories: "none", "file" or "dir"
    yaml,       \* installation.yaml of the user data directory
    udir,       \* entries of the user data directory, by name
    files,      \* entries below the sync directories, by path
    runs,       \* the local state of each background pass
    nstarted,   \* passes started so far
    last_result,    \* what the latest ProcessKeyEvent returned
    notifications   \* the reports handed to send_clean_msg, in order

compactVars == <<clines, cfile, cprev, cdeleted, ccount, cpass>>

fsVars == <<dirkind, yaml, udir, files>>

runVars == <<cleanup_userdb_list_, dirkind, yaml, udir, files, runs, nstarted,
             last_result, notifications>>

vars == <<clines, cfile, cprev, cdeleted, ccount, cpass,
          cleanup_userdb_list_, dirkind, yaml, udir, files, runs, nstarted,
          last_result, notifications>>

-----------------------------------------------------------------------------
(* Bounds of the model.                                                    *)

MaxLines == 2
MaxTokLen == 3
MaxPass == 2
MaxRuns == 2

-----------------------------------------------------------------------------
(* Characters and strings.                                                 *)

TAB == "\t"
NL == "\n"
CR == "\r"
SP == " "

IsSpace(ch) == ch \in {" ", "\t", "\n", "\r", "\f"}

IsDigit(ch) == ch \in {"0", "1", "2", "3", "4", "5", "6", "7", "8", "9"}

DigitVal(ch) ==
    CASE ch = "0" -> 0 [] ch = "1" -> 1 [] ch = "2" -> 2 [] ch = "3" -> 3
      [] ch = "4" -> 4 [] ch = "5" -> 5 [] ch = "6" -> 6 [] ch = "7" -> 7
      [] ch = "8" -> 8 [] ch = "9" -> 9

SetMax(S) == CHOOSE x \in S : \A y \in S : y <= x
SetMin(S) == CHOOSE x \in S : \A y \in S : x <= y

\* s.substr(from) with 1-based from; empty when from is past the end
SubstrFrom(s, from) == SubSeq(s, from, Len(s))

\* s.find(ch, from): least index >= from holding ch, 0 for npos
FindChar(s, ch, from) ==
    LET hits == {i \in from..Len(s) : s[i] = ch}
    IN  IF hits = {} THEN 0 ELSE SetMin(hits)

\* line.rfind("c="): greatest index where "c=" starts, 0 for npos
RFindCEq(line) ==
    LET hits == {i \in 1..(Len(line) - 1) : line[i] = "c" /\ line[i + 1] = "="}
    IN  IF hits = {} THEN 0 ELSE SetMax(hits)

\* first index >= from that does not hold a digit (Len(s)+1 at the end)
ScanDigits(s, from) ==
    SetMax({j \in from..(Len(s) + 1) : \A k \in from..(j - 1) : IsDigit(s[k])})

RECURSIVE DigitsValue(_)
DigitsValue(ds) ==
    IF ds = <<>> THEN 0
    ELSE 10 * DigitsValue(SubSeq(ds, 1, Len(ds) - 1)) + DigitVal(ds[Len(ds)])

-----------------------------------------------------------------------------
(* Number parsing.  A parsed double is represented by its signed decimal   *)
(* mantissa (the digits of the integer and fraction parts read as one      *)
(* integer): the only use the program makes of the value is the            *)
(* comparison with 0.0, which the mantissa decides.  The characters of    *)
(* the model hold no exponent, hex, inf or nan spellings.                  *)

\* The decimal mantissa starting at index i of s: digits [. digits] or
\* . digits, at least one digit.  stop = i when there is none.
ScanMantissa(s, i) ==
    LET j == ScanDigits(s, i)
        hasDot == j <= Len(s) /\ s[j] = "."
        k == IF hasDot THEN ScanDigits(s, j + 1) ELSE j
        intDigits == SubSeq(s, i, j - 1)
        fracDigits == IF hasDot THEN SubSeq(s, j + 1, k - 1) ELSE <<>>
        nDigits == Len(intDigits) + Len(fracDigits)
    IN  IF nDigits = 0
        THEN [stop |-> i, mag |-> 0, found |-> FALSE]
        ELSE [stop |-> k, mag |-> DigitsValue(intDigits \o fracDigits),
              found |-> TRUE]

\* std::from_chars(first, last, value): an optional '-', no '+', then the
\* mantissa.  ok is ec == std::errc(), ptr the index after the last
\* character consumed; value stays -1.0 when nothing is converted.
from_chars(tok) ==
    LET neg == Len(tok) >= 1 /\ tok[1] = "-"
        m == ScanMantissa(tok, IF neg THEN 2 ELSE 1)
    IN  IF m.found
        THEN [ok |-> TRUE, ptr |-> m.stop,
              value |-> IF neg THEN 0 - m.mag ELSE m.mag]
        ELSE [ok |-> FALSE, ptr |-> 1, value |-> 0 - 1]

\* std::stod(str): strtod's longest valid prefix after an optional sign;
\* throws std::invalid_argument when no conversion can be performed.
stod(tok) ==
    LET signed == Len(tok) >= 1 /\ tok[1] \in {"-", "+"}
        neg == signed /\ tok[1] = "-"
        m == ScanMantissa(tok, IF signed THEN 2 ELSE 1)
    IN  IF m.found
        THEN [thrown |-> FALSE, value |-> IF neg THEN 0 - m.mag ELSE m.mag]
        ELSE [thrown |-> TRUE, value |-> 0]

\* the text from just after the last "c=" up to whitespace or the line end
CToken(line) ==
    LET pos == RFindCEq(line) + 2
        ends == {e \in pos..(Len(line) + 1) :
                    /\ \A k \in pos..(e - 1) : ~IsSpace(line[k])
                    /\ (e = Len(line) + 1 \/ IsSpace(line[e]))}
    IN  SubSeq(line, pos, SetMin(ends) - 1)

\* the result when from_chars did not consume the whole token
ParseFallback(tok) ==
    LET r == stod(tok)
    IN  IF r.thrown THEN 1 ELSE r.value

parse_c_value(line) ==
    IF RFindCEq(line) = 0 THEN 1
    ELSE LET tok == CToken(line)
             fc == from_chars(tok)
         IN  IF ~fc.ok \/ fc.ptr # Len(tok) + 1
             THEN ParseFallback(tok)
             ELSE fc.value

extract_word_text(line) ==
    LET first_tab == FindChar(line, TAB, 1)
        second_tab == IF first_tab = 0 THEN 0
                      ELSE FindChar(line, TAB, first_tab + 1)
    IN  IF first_tab = 0 THEN line
        ELSE IF second_tab = 0 THEN SubstrFrom(line, first_tab + 1)
        ELSE SubSeq(line, first_tab + 1, second_tab - 1)

-----------------------------------------------------------------------------
(* The rewrite loop of clean_userdb_files over the bytes of one file.      *)

\* while (std::getline(in, line)): the segments between newlines; a final
\* segment with no newline is a line when it is not empty
RECURSIVE GetLines(_)
GetLines(bytes) ==
    IF bytes = <<>> THEN <<>>
    ELSE LET nl == FindChar(bytes, NL, 1)
         IN  IF nl = 0 THEN <<bytes>>
             ELSE <<SubSeq(bytes, 1, nl - 1)>> \o GetLines(SubstrFrom(bytes, nl + 1))

\* the mutant: the line written with no newline after it
WriteLine_nonl(line) == line

\* the mutant: a CRLF written after a line read in binary mode
WriteLine_crlf(line) == line \o <<CR, NL>>

\* out << line << "\n"
WriteLine(line) == line \o <<NL>>

\* the mutant: a weight of zero counts as valid
IsValidWeight_ge(c_value) == c_value >= 0

\* if (c_value > 0.0)
IsValidWeight(c_value) == c_value > 0

\* the loop body folded over the lines read: the bytes written to the
\* temporary file, deleted_words and the count of deleted entries
RECURSIVE RewriteLoop(_, _)
RewriteLoop(lines, acc) ==
    IF lines = <<>> THEN acc
    ELSE LET line == Head(lines)
         IN  IF line = <<>> THEN RewriteLoop(Tail(lines), acc)
             ELSE IF IsValidWeight(parse_c_value(line))
             THEN RewriteLoop(Tail(lines),
                      [acc EXCEPT !.out = @ \o WriteLine(line)])
             ELSE RewriteLoop(Tail(lines),
                      [acc EXCEPT !.words = Append(@, extract_word_text(line)),
                                  !.count = @ + 1])

CompactBytes(bytes) ==
    RewriteLoop(GetLines(bytes), [out |-> <<>>, words |-> <<>>, count |-> 0])

-----------------------------------------------------------------------------
(* SpecCompact: the input files.                                           *)

RECURSIVE Concat(_)
Concat(ss) == IF ss = <<>> THEN <<>> ELSE Head(ss) \o Concat(Tail(ss))

\* lines joined by newlines, the last one terminated or not
JoinLines(ls, terminated) ==
    IF ls = <<>> THEN <<>>
    ELSE LET body == Concat([i \in 1..Len(ls) |->
                               IF i < Len(ls) THEN ls[i] \o <<NL>> ELSE ls[i]])
         IN  IF terminated THEN body \o <<NL>> ELSE body

SeqsUpTo(S, n) == UNION {[1..k -> S] : k \in 0..n}

CEQ == <<"c", "=">>

LineHeads ==
    { <<>>,
      <<"k", TAB>>,
      <<"k", SP, "k", TAB, "w", TAB>>,
      <<"k", TAB, "c", "=", "0", TAB>> }

LineRests == { <<>>, <<SP, "d", "=", "1">>, <<CR>> }

TokAlphabet == {"0", "1", "-", "+", ".", "z"}

Tokens == SeqsUpTo(TokAlphabet, MaxTokLen)

\* every head, every token over the alphabet, every rest
TokenLines == {h \o CEQ \o t \o r : h \in LineHeads, t \in Tokens, r \in LineRests}

\* the lines of the files of several lines
CatalogueLines ==
    { <<>>,
      <<"k", TAB, "w", TAB, "c", "=", "1", SP, "d", "=", "1">>,
      <<"k", TAB, "v", TAB, "c", "=", "-", "1", SP, "d", "=", "1">>,
      <<"k", TAB, "u", TAB, "c", "=", "0", CR>>,
      <<"k", TAB, "w">>,
      <<"c", "=", "-">>,
      <<"1">>,
      <<"k", TAB, "t", TAB, "c", "=", "1", SP, "z", "c", "=", "0">>,
      <<"k", TAB, "s", TAB, "c", "=", "0", "z">> }

InputLines ==
    SeqsUpTo(CatalogueLines, MaxLines) \cup {<<l>> : l \in TokenLines}

-----------------------------------------------------------------------------
(* Names, paths and the allow-list.                                        *)

BSL == "\\"

SUFFIX_USERDB == <<".", "u", "s", "e", "r", "d", "b">>
SUFFIX_USERDB_TXT == <<".", "u", "s", "e", "r", "d", "b", ".", "t", "x", "t">>
CACHE_EXT == <<".", "c", "a", "c", "h", "e">>

\* name_len > suffix_len && name.substr(name_len - suffix_len) == suffix
HasSuffix(name, suffix) ==
    /\ Len(name) > Len(suffix)
    /\ SubSeq(name, Len(name) - Len(suffix) + 1, Len(name)) = suffix

StripSuffix(name, suffix) == SubSeq(name, 1, Len(name) - Len(suffix))

extract_userdb_name(filename, is_directory) ==
    IF is_directory /\ HasSuffix(filename, SUFFIX_USERDB)
    THEN StripSuffix(filename, SUFFIX_USERDB)
    ELSE IF HasSuffix(filename, SUFFIX_USERDB_TXT)
    THEN StripSuffix(filename, SUFFIX_USERDB_TXT)
    ELSE filename

\* the mutant: the allow-list is never consulted
should_clean_userdb_all(db_name, cleanup_list) == TRUE

should_clean_userdb(db_name, cleanup_list) ==
    \/ cleanup_list = <<>>
    \/ \E i \in 1..Len(cleanup_list) : cleanup_list[i] = db_name

\* the mutant: the name is pushed whether or not it is in the list
AddUnique_always(list, name) == Append(list, name)

\* push_back unless std::find already finds the name
AddUnique(list, name) ==
    IF \E i \in 1..Len(list) : list[i] = name THEN list ELSE Append(list, name)

RECURSIVE AddAllUnique(_, _)
AddAllUnique(list, names) ==
    IF names = <<>> THEN list
    ELSE AddAllUnique(AddUnique(list, Head(names)), Tail(names))

\* the orders in which a directory iterator may hand out a set of entries
Orders(S) ==
    {f \in [1..Cardinality(S) -> S] : \A i, j \in DOMAIN f : f[i] = f[j] => i = j}

-----------------------------------------------------------------------------
(* The sync directory.  A path is the sequence of its characters; the      *)
(* entries below a sync directory are keyed <<directory, subdirectory,     *)
(* file name>>.                                                            *)

\* what get_sync_dir_s and get_user_data_dir_s hand back
API_SYNC_DIR == <<"A">>
USER_DATA_DIR == <<"U">>

\* user_path / "sync"
DEFAULT_SYNC_DIR == USER_DATA_DIR \o <<BSL>> \o <<"s", "y", "n", "c">>

\* while ((pos = find("\\\\", pos)) != npos) { replace(pos, 2, "\\"); pos += 1; }
RECURSIVE CollapseFrom(_, _)
CollapseFrom(s, pos) ==
    LET hits == {i \in pos..(Len(s) - 1) : s[i] = BSL /\ s[i + 1] = BSL}
    IN  IF hits = {} THEN s
        ELSE LET i == SetMin(hits)
             IN  CollapseFrom(SubSeq(s, 1, i) \o SubSeq(s, i + 2, Len(s)), i + 1)

\* the sync_dir value as the Windows build turns it into a path
ProcessedSyncDir(custom_sync_dir) == CollapseFrom(custom_sync_dir, 1)

\* fs::exists(p) && fs::is_directory(p)
IsDirectory(p) == p \in DOMAIN dirkind /\ dirkind[p] = "dir"

\* the mutant: the default directory is tried before installation.yaml
get_sync_directory_default_first ==
    IF IsDirectory(API_SYNC_DIR) THEN API_SYNC_DIR
    ELSE IF IsDirectory(DEFAULT_SYNC_DIR) THEN DEFAULT_SYNC_DIR
    ELSE IF yaml.state = "value" /\ IsDirectory(ProcessedSyncDir(yaml.value))
    THEN ProcessedSyncDir(yaml.value)
    ELSE DEFAULT_SYNC_DIR

get_sync_directory ==
    IF IsDirectory(API_SYNC_DIR) THEN API_SYNC_DIR
    ELSE IF yaml.state = "value" /\ IsDirectory(ProcessedSyncDir(yaml.value))
    THEN ProcessedSyncDir(yaml.value)
    ELSE DEFAULT_SYNC_DIR

-----------------------------------------------------------------------------
(* File-system calls on the entries below the sync directories.            *)

FileEntry(bytes) == [kind |-> "file", bytes |-> bytes]
DirEntry == [kind |-> "dir", bytes |-> <<>>]

\* std::string temp_file = file.string() + ".cache"
CachePath(file) == <<file[1], file[2], file[3] \o CACHE_EXT>>

\* fs::exists(file) && fs::is_regular_file(file)
IsRegularFile(fs, p) == p \in DOMAIN fs /\ fs[p].kind = "file"

\* std::ofstream out(temp_file, std::ios::binary): created or truncated
FsTruncate(fs, p) ==
    [q \in DOMAIN fs \cup {p} |-> IF q = p THEN FileEntry(<<>>) ELSE fs[q]]

\* the bytes that reach the file through the stream
FsWrite(fs, p, bytes) ==
    [q \in DOMAIN fs |-> IF q = p THEN FileEntry(bytes) ELSE fs[q]]

\* fs::remove(file)
FsRemove(fs, p) == [q \in DOMAIN fs \ {p} |-> fs[q]]

\* the mutant: the temporary file is copied, not moved
FsRename_copy(fs, from, to) ==
    [q \in DOMAIN fs \cup {to} |-> IF q = to THEN fs[from] ELSE fs[q]]

\* fs::rename(temp_file, new_file)
FsRename(fs, from, to) ==
    [q \in (DOMAIN fs \ {from}) \cup {to} |-> IF q = to THEN fs[from] ELSE fs[q]]

\* the mutant: the file is skipped only when both streams failed
OpenFailed_both(in_ok, out_ok) == ~in_ok /\ ~out_ok

\* if (!in.is_open() || !out.is_open())
OpenFailed(in_ok, out_ok) == ~in_ok \/ ~out_ok

\* the prefixes of the output that end where a line ends: what is in the
\* temporary file when a write fails part of the way
LinePrefixes(out) ==
    {SubSeq(out, 1, k) : k \in {0} \cup {i \in 1..Len(out) : out[i] = NL}}

-----------------------------------------------------------------------------
(* The background pass: process_clean_task run by a detached thread.       *)

RunIds == 1..MaxRuns

IdleRun ==
    [pc |-> "idle",
     cleaned_folders |-> <<>>, cleaned_files |-> <<>>, deleted_words |-> <<>>,
     folder_deleted_count |-> 0, delete_item_count |-> 0,
     folders |-> <<>>, fidx |-> 0, entries |-> {},
     sync_path |-> <<>>, files |-> <<>>, idx |-> 0,
     in_open |-> FALSE, out_open |-> FALSE, inbuf |-> <<>>, out_fail |-> FALSE]

\* the locals are gone once the task has returned or thrown
EndedRun(pc) == [IdleRun EXCEPT !.pc = pc]

InFlight(r) == runs[r].pc \notin {"idle", "done", "aborted"}

trigger_input_ == "/del"

KeyInputs == {"/del", "x"}

\* DetachedThreadManager manager; a manager as constructed
NewManager == [is_running |-> FALSE]

\* manager.try_start(task): refuses while its task is in flight
try_start(manager) == ~manager.is_running

ProcessKeyEvent(input) ==
    /\ IF input = trigger_input_
       THEN /\ nstarted < MaxRuns
            /\ LET manager == NewManager
               IN  IF try_start(manager)
                   THEN /\ runs' = [runs EXCEPT ![nstarted + 1] =
                                        [IdleRun EXCEPT !.pc = "purge"]]
                        /\ nstarted' = nstarted + 1
                        /\ last_result' = "kAccepted"
                   ELSE /\ last_result' = "kNoop"
                        /\ UNCHANGED <<runs, nstarted>>
       ELSE /\ last_result' = "kNoop"
            /\ UNCHANGED <<runs, nstarted>>
    /\ UNCHANGED <<cleanup_userdb_list_, fsVars, notifications>>
    /\ UNCHANGED compactVars

-----------------------------------------------------------------------------
(* clean_userdb_folders: the legacy folders of the user data directory.    *)

ChildNames == {"f1", "f2", "lk", "sub"}

\* children fs::remove cannot delete: directories that are not empty
NonEmptyDirs == {"sub"}

\* and files another process holds open
Locked == {"lk"}

\* the folders the suffix and the allow-list let through
MatchingFolders ==
    {n \in DOMAIN udir :
        /\ udir[n].kind = "dir"
        /\ HasSuffix(n, SUFFIX_USERDB)
        /\ should_clean_userdb(extract_userdb_name(n, TRUE), cleanup_userdb_list_)}

\* std::string full_name = db_name + ".userdb"
FolderFullName(n) == extract_userdb_name(n, TRUE) \o SUFFIX_USERDB

\* the listing of the user data directory; a directory iterator that
\* cannot be opened throws out of the function
get_userdb_folders(r) ==
    /\ runs[r].pc = "purge"
    /\ \E enum_ok \in BOOLEAN :
       \E order \in Orders(MatchingFolders) :
          IF enum_ok
          THEN runs' = [runs EXCEPT ![r] =
                  [@ EXCEPT !.pc = "purgedir",
                            !.folders = order,
                            !.fidx = 1,
                            !.cleaned_folders =
                                AddAllUnique(<<>>, [i \in 1..Len(order) |->
                                                     FolderFullName(order[i])])]]
          ELSE runs' = [runs EXCEPT ![r] = EndedRun("aborted")]
    /\ UNCHANGED <<cleanup_userdb_list_, fsVars, nstarted, last_result,
                   notifications>>
    /\ UNCHANGED compactVars

\* the head of the loop over the folders: the directory iterator of the
\* folder hands out the children that are there, or the loop ends
OpenFolder(r) ==
    /\ runs[r].pc = "purgedir"
    /\ LET run == runs[r]
       IN  IF run.fidx > Len(run.folders)
           THEN runs' = [runs EXCEPT ![r] =
                   [@ EXCEPT !.pc = "scan", !.folders = <<>>, !.fidx = 0]]
           ELSE \E enum_ok \in BOOLEAN :
                   IF enum_ok
                   THEN runs' = [runs EXCEPT ![r] =
                           [@ EXCEPT !.pc = "unlink",
                                     !.entries = udir[run.folders[run.fidx]].children]]
                   ELSE runs' = [runs EXCEPT ![r] = EndedRun("aborted")]
    /\ UNCHANGED <<cleanup_userdb_list_, fsVars, nstarted, last_result,
                   notifications>>
    /\ UNCHANGED compactVars

\* the mutant: every entry handed out is counted, deleted or not
PurgeOutcome_attempts(present, entries) ==
    [remain |-> present \ (entries \ (NonEmptyDirs \cup Locked)),
     count |-> Cardinality(entries)]

\* fs::remove(entry.path()); deleted_files_count++ for every entry handed
\* out: an exception (caught) for a child that cannot be deleted, false
\* and no exception for a child that is no longer there
PurgeOutcome(present, entries) ==
    [remain |-> present \ (entries \ (NonEmptyDirs \cup Locked)),
     count |-> Cardinality({e \in entries :
                   e \notin present \/ e \notin (NonEmptyDirs \cup Locked)})]

\* the loop over the children of one folder
RemoveChildren(r) ==
    /\ runs[r].pc = "unlink"
    /\ LET run == runs[r]
           folder == run.folders[run.fidx]
           outcome == PurgeOutcome(udir[folder].children, run.entries)
       IN  /\ udir' = [udir EXCEPT ![folder].children = outcome.remain]
           /\ runs' = [runs EXCEPT ![r] =
                 [@ EXCEPT !.pc = "purgedir",
                           !.fidx = @ + 1,
                           !.entries = {},
                           !.folder_deleted_count = @ + outcome.count]]
    /\ UNCHANGED <<cleanup_userdb_list_, dirkind, yaml, files, nstarted,
                   last_result, notifications>>
    /\ UNCHANGED compactVars

-----------------------------------------------------------------------------
(* clean_userdb_files: the text files below the sync directory.            *)

\* the regular files the suffix and the allow-list let through
MatchingFiles(sync_path) ==
    {p \in DOMAIN files :
        /\ p[1] = sync_path
        /\ files[p].kind = "file"
        /\ HasSuffix(p[3], SUFFIX_USERDB_TXT)
        /\ should_clean_userdb(extract_userdb_name(p[3], FALSE),
                               cleanup_userdb_list_)}

\* std::string full_name = db_name + ".userdb.txt"
FileFullName(p) == extract_userdb_name(p[3], FALSE) \o SUFFIX_USERDB_TXT

get_userdb_files(r) ==
    /\ runs[r].pc = "scan"
    /\ LET sync_path == get_sync_directory
       IN  IF ~IsDirectory(sync_path)
           THEN runs' = [runs EXCEPT ![r] =
                    [@ EXCEPT !.pc = "open", !.sync_path = sync_path,
                              !.files = <<>>, !.idx = 1]]
           ELSE \E enum_ok \in BOOLEAN :
                \E order \in Orders(MatchingFiles(sync_path)) :
                   IF enum_ok
                   THEN runs' = [runs EXCEPT ![r] =
                           [@ EXCEPT !.pc = "open", !.sync_path = sync_path,
                                     !.files = order, !.idx = 1,
                                     !.cleaned_files =
                                         AddAllUnique(<<>>, [i \in 1..Len(order) |->
                                                              FileFullName(order[i])])]]
                   ELSE runs' = [runs EXCEPT ![r] = EndedRun("aborted")]
    /\ UNCHANGED <<cleanup_userdb_list_, fsVars, nstarted, last_result,
                   notifications>>
    /\ UNCHANGED compactVars

\* the head of the loop over the files: the existence test and the two
\* streams, or the end of the loop
OpenStreams(r) ==
    /\ runs[r].pc = "open"
    /\ LET run == runs[r]
       IN  IF run.idx > Len(run.files)
           THEN /\ runs' = [runs EXCEPT ![r].pc = "report"]
                /\ UNCHANGED files
           ELSE LET file == run.files[run.idx]
                    temp_file == CachePath(file)
                IN  IF ~IsRegularFile(files, file)
                    THEN /\ runs' = [runs EXCEPT ![r].idx = @ + 1]
                         /\ UNCHANGED files
                    ELSE \E in_ok \in BOOLEAN, out_ok \in BOOLEAN :
                           /\ out_ok => ~(/\ temp_file \in DOMAIN files
                                          /\ files[temp_file].kind = "dir")
                           /\ files' = IF out_ok THEN FsTruncate(files, temp_file)
                                       ELSE files
                           /\ runs' = [runs EXCEPT ![r] =
                                 [@ EXCEPT
                                    !.in_open = in_ok,
                                    !.out_open = out_ok,
                                    !.inbuf = IF in_ok THEN files[file].bytes ELSE <<>>,
                                    !.out_fail = ~out_ok,
                                    !.idx = IF OpenFailed(in_ok, out_ok)
                                            THEN @ + 1 ELSE @,
                                    !.pc = IF OpenFailed(in_ok, out_ok)
                                           THEN "open" ELSE "copy"]]
    /\ UNCHANGED <<cleanup_userdb_list_, dirkind, yaml, udir, nstarted,
                   last_result, notifications>>
    /\ UNCHANGED compactVars

\* the getline loop, then flush and close; a write that fails leaves the
\* stream failed and the temporary file short, and nothing reports it
CopyLines(r) ==
    /\ runs[r].pc = "copy"
    /\ LET run == runs[r]
           temp_file == CachePath(run.files[run.idx])
           res == CompactBytes(IF run.in_open THEN run.inbuf ELSE <<>>)
       IN  \E written \in LinePrefixes(res.out) :
              /\ ~run.out_open => written = <<>>
              /\ files' = IF run.out_open /\ temp_file \in DOMAIN files
                          THEN FsWrite(files, temp_file, written)
                          ELSE files
              /\ runs' = [runs EXCEPT ![r] =
                    [@ EXCEPT !.deleted_words = @ \o res.words,
                              !.delete_item_count = @ + res.count,
                              !.out_fail = (written # res.out) \/ ~run.out_open,
                              !.in_open = FALSE,
                              !.out_open = FALSE,
                              !.pc = "remove"]]
    /\ UNCHANGED <<cleanup_userdb_list_, dirkind, yaml, udir, nstarted,
                   last_result, notifications>>
    /\ UNCHANGED compactVars

\* fs::remove(file): false when there is no such file, an exception when
\* the file cannot be removed
RemoveOriginal(r) ==
    /\ runs[r].pc = "remove"
    /\ LET file == runs[r].files[runs[r].idx]
       IN  IF file \notin DOMAIN files
           THEN /\ runs' = [runs EXCEPT ![r].pc = "rename"]
                /\ UNCHANGED files
           ELSE \E removed \in BOOLEAN :
                   IF removed
                   THEN /\ files' = FsRemove(files, file)
                        /\ runs' = [runs EXCEPT ![r].pc = "rename"]
                   ELSE /\ runs' = [runs EXCEPT ![r] = EndedRun("aborted")]
                        /\ UNCHANGED files
    /\ UNCHANGED <<cleanup_userdb_list_, dirkind, yaml, udir, nstarted,
                   last_result, notifications>>
    /\ UNCHANGED compactVars

\* fs::rename(temp_file, new_file): an exception when it fails
RenameTemp(r) ==
    /\ runs[r].pc = "rename"
    /\ LET file == runs[r].files[runs[r].idx]
           temp_file == CachePath(file)
       IN  IF temp_file \notin DOMAIN files
           THEN /\ runs' = [runs EXCEPT ![r] = EndedRun("aborted")]
                /\ UNCHANGED files
           ELSE \E renamed \in BOOLEAN :
                   IF renamed
                   THEN /\ files' = FsRename(files, temp_file, file)
                        /\ runs' = [runs EXCEPT ![r].pc = "open", ![r].idx = @ + 1]
                   ELSE /\ runs' = [runs EXCEPT ![r] = EndedRun("aborted")]
                        /\ UNCHANGED files
    /\ UNCHANGED <<cleanup_userdb_list_, dirkind, yaml, udir, nstarted,
                   last_result, notifications>>
    /\ UNCHANGED compactVars

\* the mutant: the files deleted from the folders are added in
total_notification_count_merged(folder_deleted_count, file_deleted_count) ==
    folder_deleted_count + file_deleted_count

\* int total_notification_count = file_deleted_count
total_notification_count(folder_deleted_count, file_deleted_count) ==
    file_deleted_count

\* the report handed to the sink
send_clean_msg(r) ==
    /\ runs[r].pc = "report"
    /\ notifications' = Append(notifications,
           [delete_item_count |->
                total_notification_count(runs[r].folder_deleted_count,
                                         runs[r].delete_item_count),
            cleaned_folders |-> runs[r].cleaned_folders,
            cleaned_files |-> runs[r].cleaned_files,
            deleted_words |-> runs[r].deleted_words])
    /\ runs' = [runs EXCEPT ![r] = EndedRun("done")]
    /\ UNCHANGED <<cleanup_userdb_list_, fsVars, nstarted, last_result>>
    /\ UNCHANGED compactVars

-----------------------------------------------------------------------------
(* The file systems and configurations the passes start from.              *)

DB_A == <<"a">>
DB_B == <<"b">>
DB_C == <<"c">>

FOLDER_A == DB_A \o SUFFIX_USERDB
FOLDER_B == DB_B \o SUFFIX_USERDB
FOLDER_BARE == SUFFIX_USERDB

TXT_A == DB_A \o SUFFIX_USERDB_TXT
TXT_B == DB_B \o SUFFIX_USERDB_TXT
TXT_BARE == SUFFIX_USERDB_TXT

LINE_VALID == <<"k", TAB, "w", TAB, "c", "=", "1">>
LINE_STALE == <<"k", TAB, "v", TAB, "c", "=", "0">>
LINE_NEG == <<"j", TAB, "u", TAB, "c", "=", "-", "1">>

BYTES_MIXED == JoinLines(<<LINE_VALID, LINE_STALE>>, TRUE)
BYTES_STALE == JoinLines(<<LINE_NEG>>, FALSE)
BYTES_VALID == JoinLines(<<LINE_VALID, <<>>, LINE_VALID>>, TRUE)
BYTES_REPEAT == JoinLines(<<LINE_STALE, LINE_NEG>>, FALSE)

\* sync_dir values of installation.yaml: a drive path and a UNC path
PLAIN_DIR == <<"D", BSL, "s">>
UNC_DIR == <<BSL, BSL, "n", BSL, "s">>
UNC_COLLAPSED == <<BSL, "n", BSL, "s">>

SyncRoots == {API_SYNC_DIR, DEFAULT_SYNC_DIR, PLAIN_DIR, UNC_DIR, UNC_COLLAPSED}

NoValue(state) == [state |-> state, value |-> <<>>]
Value(v) == [state |-> "value", value |-> v]

YamlStates ==
    {NoValue("nofile"), NoValue("unloadable"), NoValue("nokey"),
     Value(PLAIN_DIR), Value(UNC_DIR)}

Folder(children) == [kind |-> "dir", children |-> children]
PlainFile == [kind |-> "file", children |-> {}]

U_TWO ==
    (FOLDER_A :> Folder({"f1", "f2"})) @@ (FOLDER_B :> Folder({"lk", "f1"}))
        @@ (FOLDER_BARE :> Folder({"f1"}))

U_ODD == (FOLDER_A :> Folder({"f1", "sub"})) @@ (FOLDER_B :> PlainFile)

\* entries below one sync directory, keyed <<subdirectory, file name>>
S_SAME_NAME ==
    (<<"", TXT_A>> :> FileEntry(BYTES_MIXED))
        @@ (<<"i1", TXT_A>> :> FileEntry(BYTES_REPEAT))
        @@ (<<"", TXT_BARE>> :> FileEntry(BYTES_STALE))

S_TWO_NAMES ==
    (<<"i1", TXT_A>> :> FileEntry(BYTES_MIXED))
        @@ (<<"i1", TXT_B>> :> FileEntry(BYTES_VALID))
        @@ (<<"i1", TXT_B \o CACHE_EXT>> :> FileEntry(BYTES_STALE))
        @@ (<<"", TXT_A>> :> DirEntry)

S_BLOCKED ==
    (<<"", TXT_B>> :> FileEntry(BYTES_MIXED))
        @@ (<<"", TXT_B \o CACHE_EXT>> :> DirEntry)

\* the user data directory and the sync tree the passes start from
Layouts ==
    { [folders |-> U_TWO, tree |-> S_BLOCKED],
      [folders |-> U_ODD, tree |-> S_TWO_NAMES],
      [folders |-> <<>>, tree |-> S_SAME_NAME] }

AllowLists == { <<>>, <<DB_A>>, <<DB_C, DB_B>> }

\* the layout placed below every sync directory that exists
Populate(kinds, layout) ==
    [p \in {<<root, e[1], e[2]>> : root \in {d \in SyncRoots : kinds[d] = "dir"},
                                   e \in DOMAIN layout}
        |-> layout[<<p[2], p[3]>>]]

Kinds(dirs) == [d \in SyncRoots |-> IF d \in dirs THEN "dir" ELSE "none"]

Environments ==
    { [kinds |-> Kinds({API_SYNC_DIR}), yaml |-> NoValue("nofile")],
      [kinds |-> Kinds({PLAIN_DIR, DEFAULT_SYNC_DIR}), yaml |-> Value(PLAIN_DIR)] }

\* every kind for every directory the resolution looks at
ResolveEnvironments ==
    {e \in [kinds : [SyncRoots -> {"none", "file", "dir"}], yaml : YamlStates] :
        /\ e.yaml # Value(PLAIN_DIR) => e.kinds[PLAIN_DIR] = "none"
        /\ e.yaml # Value(UNC_DIR) =>
              e.kinds[UNC_DIR] = "none" /\ e.kinds[UNC_COLLAPSED] = "none"}

InitCompactVars ==
    /\ clines = <<>>
    /\ cfile = <<>>
    /\ cprev = <<>>
    /\ cdeleted = <<>>
    /\ ccount = 0
    /\ cpass = 0

InitRunVars(list, env, folders, layout) ==
    /\ cleanup_userdb_list_ = list
    /\ dirkind = env.kinds
    /\ yaml = env.yaml
    /\ udir = folders
    /\ files = Populate(env.kinds, layout)
    /\ runs = [r \in RunIds |-> IdleRun]
    /\ nstarted = 0
    /\ last_result = "kNoop"
    /\ notifications = <<>>

Init ==
    /\ InitCompactVars
    /\ \E list \in AllowLists, env \in Environments, layout \in Layouts :
          InitRunVars(list, env, layout.folders, layout.tree)

NoPassInFlight == \A r \in RunIds : ~InFlight(r)

\* a key event arriving while no pass is in flight
KeyEventWhenIdle(input) == NoPassInFlight /\ ProcessKeyEvent(input)

Next ==
    \/ \E input \in KeyInputs : KeyEventWhenIdle(input)
    \/ \E r \in RunIds : get_userdb_folders(r)
    \/ \E r \in RunIds : OpenFolder(r)
    \/ \E r \in RunIds : RemoveChildren(r)
    \/ \E r \in RunIds : get_userdb_files(r)
    \/ \E r \in RunIds : OpenStreams(r)
    \/ \E r \in RunIds : CopyLines(r)
    \/ \E r \in RunIds : RemoveOriginal(r)
    \/ \E r \in RunIds : RenameTemp(r)
    \/ \E r \in RunIds : send_clean_msg(r)

Spec == Init /\ [][Next]_vars

\* SpecResolve: the same passes, started in every environment of the
\* sync-directory resolution
InitResolve ==
    /\ InitCompactVars
    /\ \E env \in ResolveEnvironments :
          InitRunVars(<<>>, env,
                      (FOLDER_A :> Folder({"f1"})),
                      (<<"", TXT_A>> :> FileEntry(BYTES_MIXED)))

SpecResolve == InitResolve /\ [][Next]_vars

\* SpecConcurrent: key events arrive at any time
InitConcurrent ==
    /\ InitCompactVars
    /\ InitRunVars(<<>>,
                   [kinds |-> Kinds({API_SYNC_DIR}), yaml |-> NoValue("nofile")],
                   (FOLDER_A :> Folder({"f1"})),
                   (<<"", TXT_A>> :> FileEntry(BYTES_MIXED)))

NextConcurrent ==
    \/ \E input \in KeyInputs : ProcessKeyEvent(input)
    \/ \E r \in RunIds : get_userdb_folders(r)
    \/ \E r \in RunIds : OpenFolder(r)
    \/ \E r \in RunIds : RemoveChildren(r)
    \/ \E r \in RunIds : get_userdb_files(r)
    \/ \E r \in RunIds : OpenStreams(r)
    \/ \E r \in RunIds : CopyLines(r)
    \/ \E r \in RunIds : RemoveOriginal(r)
    \/ \E r \in RunIds : RenameTemp(r)
    \/ \E r \in RunIds : send_clean_msg(r)

SpecConcurrent == InitConcurrent /\ [][NextConcurrent]_vars

\* SpecCompact: the file of the rewrite loop
InitCompact ==
    /\ clines \in InputLines
    /\ \E terminated \in BOOLEAN : cfile = JoinLines(clines, terminated)
    /\ cprev = cfile
    /\ cdeleted = <<>>
    /\ ccount = 0
    /\ cpass = 0
    /\ InitRunVars(<<>>, [kinds |-> Kinds({}), yaml |-> NoValue("nofile")],
                   <<>>, <<>>)

\* one pass of the loop over the file, the result swapped into place
Compact ==
    /\ cpass < MaxPass
    /\ LET r == CompactBytes(cfile)
       IN  /\ cfile' = r.out
           /\ cdeleted' = r.words
           /\ ccount' = r.count
    /\ cprev' = cfile
    /\ cpass' = cpass + 1
    /\ UNCHANGED clines
    /\ UNCHANGED runVars

NextCompact == Compact

SpecCompact == InitCompact /\ [][NextCompact]_vars

-----------------------------------------------------------------------------
(* What the claims about the rewrite say, stated on the text of a line     *)
(* without the program's scanning: the weight token is the text after the  *)
(* last "c=" up to the next whitespace, and a decimal numeral is an        *)
(* optional sign, digits and at most one point, with at least one digit.   *)

HasCEq(line) ==
    \E i \in 1..(Len(line) - 1) : line[i] = "c" /\ line[i + 1] = "="

IsWeightToken(line, tok) ==
    \E p \in 1..(Len(line) - 1) :
        /\ line[p] = "c" /\ line[p + 1] = "="
        /\ \A q \in (p + 1)..(Len(line) - 1) : ~(line[q] = "c" /\ line[q + 1] = "=")
        /\ p + 1 + Len(tok) <= Len(line)
        /\ tok = SubSeq(line, p + 2, p + 1 + Len(tok))
        /\ \A k \in 1..Len(tok) : ~IsSpace(tok[k])
        /\ (p + 1 + Len(tok) = Len(line) \/ IsSpace(line[p + 2 + Len(tok)]))

NumeralBody(tok) ==
    IF Len(tok) >= 1 /\ tok[1] \in {"-", "+"} THEN Tail(tok) ELSE tok

IsDecimalNumeral(tok) ==
    LET body == NumeralBody(tok)
    IN  /\ \A k \in 1..Len(body) : IsDigit(body[k]) \/ body[k] = "."
        /\ Cardinality({k \in 1..Len(body) : body[k] = "."}) <= 1
        /\ \E k \in 1..Len(body) : IsDigit(body[k])

NumeralIsPositive(tok) ==
    /\ IsDecimalNumeral(tok)
    /\ tok[1] # "-"
    /\ \E k \in 1..Len(tok) : IsDigit(tok[k]) /\ tok[k] # "0"

NumeralIsNonPositive(tok) ==
    /\ IsDecimalNumeral(tok)
    /\ ~NumeralIsPositive(tok)

HasPositiveWeight(line) ==
    \E n \in 0..Len(line) : \E tok \in {SubSeq(line, Len(line) - n - m + 1, Len(line) - m) : m \in 0..(Len(line) - n)} :
        IsWeightToken(line, tok) /\ NumeralIsPositive(tok)

HasNonPositiveWeight(line) ==
    \E n \in 0..Len(line) : \E tok \in {SubSeq(line, Len(line) - n - m + 1, Len(line) - m) : m \in 0..(Len(line) - n)} :
        IsWeightToken(line, tok) /\ NumeralIsNonPositive(tok)

HasNoNumericWeight(line) ==
    \/ ~HasCEq(line)
    \/ \E n \in 0..Len(line) : \E tok \in {SubSeq(line, Len(line) - n - m + 1, Len(line) - m) : m \in 0..(Len(line) - n)} :
          IsWeightToken(line, tok) /\ ~IsDecimalNumeral(tok)

\* the text between the first and the second tab; after the only tab; or
\* the whole line when it holds no tab
IsLabelOf(line, label) ==
    LET tabs == {i \in 1..Len(line) : line[i] = TAB}
    IN  \/ tabs = {} /\ label = line
        \/ \E a \in tabs :
              /\ tabs = {a}
              /\ label = SubSeq(line, a + 1, Len(line))
        \/ \E a, b \in tabs :
              /\ a < b
              /\ \A t \in tabs : t = a \/ t >= b
              /\ label = SubSeq(line, a + 1, b - 1)

\* the file holds the line, whole, terminated by a newline
AppearsAsLine(bytes, line) ==
    \E i \in 1..(Len(bytes) - Len(line)) :
        /\ (i = 1 \/ bytes[i - 1] = NL)
        /\ SubSeq(bytes, i, i + Len(line) - 1) = line
        /\ bytes[i + Len(line)] = NL

Range(f) == {f[i] : i \in DOMAIN f}

\* C2: after one pass over a file, every line of the original whose weight
\* token is a numeral greater than zero stands unchanged in the rewritten
\* file, and every line whose weight token is a numeral not greater than
\* zero is gone from it, its label among the deleted labels.
C2_WeightDecidesKeepOrDrop ==
    cpass = 1 =>
        \A i \in 1..Len(clines) :
            LET line == clines[i]
            IN  /\ HasPositiveWeight(line) => AppearsAsLine(cfile, line)
                /\ HasNonPositiveWeight(line) =>
                      /\ ~AppearsAsLine(cfile, line)
                      /\ \E w \in Range(cdeleted) : IsLabelOf(line, w)

C2_Witness ==
    /\ cpass = 1
    /\ \E i, j \in 1..Len(clines) :
          /\ HasPositiveWeight(clines[i])
          /\ HasNonPositiveWeight(clines[j])
          /\ Cardinality({t \in 1..Len(clines[j]) : clines[j][t] = TAB}) >= 2

\* C3: after one pass over a file, every non-empty line with no "c=", or
\* whose text after the last "c=" is not a decimal numeral, stands in the
\* rewritten file, and no entry is counted as deleted for it.
C3_FailOpen ==
    cpass = 1 =>
        /\ \A i \in 1..Len(clines) :
              (clines[i] # <<>> /\ HasNoNumericWeight(clines[i]))
                  => AppearsAsLine(cfile, clines[i])
        /\ (\A i \in 1..Len(clines) : HasNoNumericWeight(clines[i])) => ccount = 0

\* C5: a second pass over a file already compacted leaves the bytes of the
\* file as they were, deletes nothing and reports no label.
C5_Idempotent ==
    cpass >= 2 => (cfile = cprev /\ ccount = 0 /\ cdeleted = <<>>)

C5_Witness ==
    /\ cpass = 2
    /\ cfile # <<>>
    /\ \A terminated \in BOOLEAN : cfile # JoinLines(clines, terminated)

IsKeptLine(line) == line # <<>> /\ IsValidWeight(parse_c_value(line))

\* C6: after one pass the rewritten file is exactly the kept lines of the
\* original, each byte for byte and newline-terminated, in their original
\* order; every other non-empty line is counted as deleted.
C6_OnlyRemoves ==
    cpass = 1 =>
        /\ cfile = JoinLines(SelectSeq(clines, IsKeptLine), TRUE)
        /\ ccount = Cardinality({i \in 1..Len(clines) :
                                    clines[i] # <<>> /\ ~IsKeptLine(clines[i])})

C6_Witness ==
    /\ cpass = 1
    /\ Len(clines) = MaxLines
    /\ ccount = 1
    /\ cfile # <<>>

-----------------------------------------------------------------------------
(* The claims about a pass.                                                *)

\* C1: at most one cleanup pass is in flight at any time: a trigger that
\* fires while a pass started earlier has not completed starts nothing.
C1_AtMostOnePass ==
    Cardinality({r \in RunIds : InFlight(r)}) <= 1

ListedFolder(n) ==
    \E i \in 1..Len(cleanup_userdb_list_) :
        n = cleanup_userdb_list_[i] \o SUFFIX_USERDB

ListedFile(name) ==
    \E i \in 1..Len(cleanup_userdb_list_) :
        name = cleanup_userdb_list_[i] \o SUFFIX_USERDB_TXT

\* a <name>.userdb folder, a <name>.userdb.txt file, the name not empty
IsUserdbFolderName(n) == \E k \in 1..Len(n) : n = SubSeq(n, 1, k) \o SUFFIX_USERDB
IsUserdbFileName(n) == \E k \in 1..Len(n) : n = SubSeq(n, 1, k) \o SUFFIX_USERDB_TXT

C4_Step ==
    /\ cleanup_userdb_list_ # <<>> =>
          \* folders and files of names off the list stay as they are
          /\ \A n \in DOMAIN udir :
                (IsUserdbFolderName(n) /\ ~ListedFolder(n)) => udir'[n] = udir[n]
          /\ \A p \in DOMAIN files :
                (IsUserdbFileName(p[3]) /\ ~ListedFile(p[3])) =>
                    /\ p \in DOMAIN files' /\ files'[p] = files[p]
                    /\ CachePath(p) \in DOMAIN files' =>
                          /\ CachePath(p) \in DOMAIN files
                          /\ files'[CachePath(p)] = files[CachePath(p)]
          \* and are named in no list of cleaned folders or files
          /\ \A r \in RunIds :
                /\ \A i \in 1..Len(runs'[r].cleaned_folders) :
                      ListedFolder(runs'[r].cleaned_folders[i])
                /\ \A i \in 1..Len(runs'[r].cleaned_files) :
                      ListedFile(runs'[r].cleaned_files[i])
                /\ \A i \in 1..Len(runs'[r].files) :
                      ListedFile(runs'[r].files[i][3])
          /\ \A k \in 1..Len(notifications') :
                /\ \A i \in 1..Len(notifications'[k].cleaned_folders) :
                      ListedFolder(notifications'[k].cleaned_folders[i])
                /\ \A i \in 1..Len(notifications'[k].cleaned_files) :
                      ListedFile(notifications'[k].cleaned_files[i])
    /\ cleanup_userdb_list_ = <<>> =>
          \A r \in RunIds :
             \* the folder scan that completes names every matching folder
             /\ (runs[r].pc = "purge" /\ runs'[r].pc = "purgedir") =>
                   \A n \in DOMAIN udir :
                      (udir[n].kind = "dir" /\ IsUserdbFolderName(n)) =>
                          n \in Range(runs'[r].cleaned_folders)
             \* the file scan that completes selects every matching file
             /\ (runs[r].pc = "scan" /\ runs'[r].pc = "open") =>
                   \A p \in DOMAIN files :
                      (/\ p[1] = runs'[r].sync_path
                       /\ files[p].kind = "file"
                       /\ IsUserdbFileName(p[3])) =>
                          /\ p \in Range(runs'[r].files)
                          /\ p[3] \in Range(runs'[r].cleaned_files)

\* C4: with a non-empty cleanup list no step of a pass changes the folder
\* or the file (or creates or changes the .cache sibling) of a name that is
\* not on the list, and no such name is selected or reported as cleaned;
\* with an empty list the scans select every matching folder and file.
C4_AllowList == [][C4_Step]_vars

C4_Witness ==
    /\ cleanup_userdb_list_ = <<DB_A>>
    /\ Len(notifications) = 1
    /\ notifications[1].cleaned_files = <<TXT_A>>
    /\ notifications[1].cleaned_folders = <<FOLDER_A>>
    /\ notifications[1].delete_item_count = 1
    /\ \E p \in DOMAIN files : p[3] = TXT_B /\ files[p].kind = "file"

CurrentFile(r) == runs[r].files[runs[r].idx]

\* C7: a compaction of a file in which both streams opened, every write
\* succeeded and neither remove nor rename failed leaves the file holding
\* the compacted content of what was read, and no .cache sibling.
C7_Step ==
    \A r \in RunIds :
        (runs[r].pc = "rename" /\ runs'[r].pc = "open" /\ ~runs[r].out_fail) =>
            /\ CurrentFile(r) \in DOMAIN files'
            /\ files'[CurrentFile(r)] = FileEntry(CompactBytes(runs[r].inbuf).out)
            /\ CachePath(CurrentFile(r)) \notin DOMAIN files'

C8_Step ==
    \A r \in RunIds :
        /\ (/\ runs[r].pc = "open"
            /\ runs'[r] # runs[r]
            /\ runs[r].idx <= Len(runs[r].files)
            /\ IsRegularFile(files, CurrentFile(r))
            /\ (~runs'[r].in_open \/ ~runs'[r].out_open)) =>
               /\ CurrentFile(r) \in DOMAIN files'
               /\ files'[CurrentFile(r)] = files[CurrentFile(r)]
               /\ runs'[r].deleted_words = runs[r].deleted_words
               /\ runs'[r].delete_item_count = runs[r].delete_item_count
               /\ runs'[r].pc = "open"
               /\ runs'[r].idx = runs[r].idx + 1
        /\ InFlight(r) =>
               \A i \in 1..Len(runs[r].files) :
                   (i # runs[r].idx /\ runs[r].files[i] \in DOMAIN files) =>
                       /\ runs[r].files[i] \in DOMAIN files'
                       /\ files'[runs[r].files[i]] = files[runs[r].files[i]]

C8_OpenFailureSkips == [][C8_Step]_vars

C8_Witness ==
    \E r \in RunIds :
        /\ runs[r].pc = "copy"
        /\ runs[r].idx = 2
        /\ runs[r].deleted_words = <<>>
        /\ runs[r].delete_item_count = 0
        /\ files[runs[r].files[1]].bytes = BYTES_MIXED
        /\ CachePath(runs[r].files[1]) \in DOMAIN files

\* C9: every pass that has ended has gone through send_clean_msg: none is
\* ended by an error of an item.
C9_EveryPassReports ==
    \A r \in RunIds : runs[r].pc # "aborted"

SyncDirCandidates(value) ==
    <<API_SYNC_DIR>>
        \o (IF yaml.state = "value" THEN <<value>> ELSE <<>>)
        \o <<DEFAULT_SYNC_DIR>>

FirstDirectory(cands) ==
    IF \E i \in 1..Len(cands) : IsDirectory(cands[i])
    THEN cands[SetMin({i \in 1..Len(cands) : IsDirectory(cands[i])})]
    ELSE DEFAULT_SYNC_DIR

Resolved(r) == runs[r].pc \in {"open", "copy", "remove", "rename", "report"}

\* C10 as claimed: the directory a pass resolves is the first that exists
\* as a directory among the API's sync directory, the sync_dir value of
\* installation.yaml and <user_data_dir>/sync, and <user_data_dir>/sync
\* with no file to compact when none does.
C10_AsClaimed ==
    \A r \in RunIds :
        Resolved(r) =>
            /\ runs[r].sync_path = FirstDirectory(SyncDirCandidates(yaml.value))
            /\ (\A i \in 1..Len(SyncDirCandidates(yaml.value)) :
                    ~IsDirectory(SyncDirCandidates(yaml.value)[i]))
                  => runs[r].files = <<>>

\* C10 as amended: the second candidate is the sync_dir value with every
\* doubled backslash collapsed into one.
C10_SyncDirectory ==
    \A r \in RunIds :
        Resolved(r) =>
            /\ runs[r].sync_path =
                  FirstDirectory(SyncDirCandidates(ProcessedSyncDir(yaml.value)))
            /\ (\A i \in 1..Len(SyncDirCandidates(ProcessedSyncDir(yaml.value))) :
                    ~IsDirectory(SyncDirCandidates(ProcessedSyncDir(yaml.value))[i]))
                  => (runs[r].sync_path = DEFAULT_SYNC_DIR /\ runs[r].files = <<>>)

C10_Witness ==
    \E r \in RunIds :
        /\ runs[r].pc = "copy"
        /\ yaml = Value(UNC_DIR)
        /\ dirkind[UNC_DIR] = "dir"
        /\ dirkind[DEFAULT_SYNC_DIR] = "dir"
        /\ runs[r].sync_path = UNC_COLLAPSED

NoDuplicates(list) ==
    \A i, j \in 1..Len(list) : list[i] = list[j] => i = j

FirstIndex(seen, x) == SetMin({i \in 1..Len(seen) : seen[i] = x})

\* list holds each name of seen once, in the order of first appearance
InFirstSeenOrder(list, seen) ==
    /\ NoDuplicates(list)
    /\ Range(list) = Range(seen)
    /\ \A i, j \in 1..Len(list) :
          i < j => FirstIndex(seen, list[i]) < FirstIndex(seen, list[j])

IsDroppedLine(line) == line # <<>> /\ ~IsValidWeight(parse_c_value(line))

\* the labels of the lines the rewrite drops from bytes, one per line, in
\* the order of the lines
DroppedLabels(bytes) ==
    LET dropped == SelectSeq(GetLines(bytes), IsDroppedLine)
    IN  [i \in 1..Len(dropped) |-> extract_word_text(dropped[i])]

C11_Step ==
    \A r \in RunIds :
        /\ NoDuplicates(runs'[r].cleaned_folders)
        \* the folder scan names each selected folder once
        /\ (runs[r].pc = "purge" /\ runs'[r].pc = "purgedir") =>
              Range(runs'[r].cleaned_folders) =
                 {n \in DOMAIN udir :
                     /\ udir[n].kind = "dir"
                     /\ IsUserdbFolderName(n)
                     /\ (cleanup_userdb_list_ = <<>> \/ ListedFolder(n))}
        \* the file names, in the order the files were found
        /\ runs'[r].pc \in {"open", "copy", "remove", "rename", "report"} =>
              InFirstSeenOrder(runs'[r].cleaned_files,
                               [i \in 1..Len(runs'[r].files) |-> runs'[r].files[i][3]])
        \* the labels of a file follow those of the files before it
        /\ (runs[r].pc = "copy" /\ runs'[r].pc = "remove") =>
              runs'[r].deleted_words =
                 runs[r].deleted_words \o DroppedLabels(runs[r].inbuf)
        \* and the report carries the three lists as they are
        /\ (runs[r].pc = "report" /\ runs'[r].pc = "done") =>
              /\ Len(notifications') = Len(notifications) + 1
              /\ LET report == notifications'[Len(notifications')]
                 IN  /\ report.cleaned_folders = runs[r].cleaned_folders
                     /\ report.cleaned_files = runs[r].cleaned_files
                     /\ report.deleted_words = runs[r].deleted_words

\* C11: the cleaned folder names and the cleaned file names of a pass each
\* hold no name twice and stand in the order in which the names were first
\* found; the deleted labels are appended file after file, line after line,
\* repeats kept; the report carries the lists unchanged.
C11_ReportLists == [][C11_Step]_vars

C11_Witness ==
    \E k \in 1..Len(notifications) :
        /\ notifications[k].cleaned_files = <<TXT_A>>
        /\ Len(notifications[k].deleted_words) = 3
        /\ ~NoDuplicates(notifications[k].deleted_words)

C12_Step ==
    /\ DOMAIN udir' = DOMAIN udir
    /\ \A n \in DOMAIN udir : udir'[n].kind = udir[n].kind
    /\ \A r \in RunIds :
          (runs[r].pc = "unlink" /\ runs'[r].pc = "purgedir") =>
              LET n == runs[r].folders[runs[r].fidx]
              IN  \* only the children that cannot be deleted are left
                  /\ udir'[n].children =
                        udir[n].children \cap (NonEmptyDirs \cup Locked)
                  \* and the count grows by the children that are gone
                  /\ runs'[r].folder_deleted_count =
                        runs[r].folder_deleted_count
                           + Cardinality(udir[n].children \ udir'[n].children)

LinesOnDisk(p) ==
    IF IsRegularFile(files, p) THEN Range(GetLines(files[p].bytes)) ELSE {}

\* C13: while a pass is compacting a file, from the opening of the streams
\* to the rename, whatever write, remove or rename has failed and wherever
\* the pass stops, every kept line of the file as it was read is a line of
\* the file or of its .cache sibling.
C13_NoDataLoss ==
    \A r \in RunIds :
        runs[r].pc \in {"copy", "remove", "rename"} =>
            \A line \in Range(GetLines(runs[r].inbuf)) :
                IsKeptLine(line) =>
                    \/ line \in LinesOnDisk(CurrentFile(r))
                    \/ line \in LinesOnDisk(CachePath(CurrentFile(r)))

\* the place of a step in the order of a pass
Phase(pc) ==
    CASE pc = "idle" -> 0
      [] pc \in {"purge", "purgedir", "unlink"} -> 1
      [] pc = "scan" -> 2
      [] pc \in {"open", "copy", "remove", "rename"} -> 3
      [] pc = "report" -> 4
      [] OTHER -> 5

\* purging, then compaction, then the report: no step of a pass goes back,
\* folders change only while it purges, files only while it compacts
C14_OrderStep ==
    /\ \A r \in RunIds : Phase(runs'[r].pc) >= Phase(runs[r].pc)
    /\ udir' # udir => \E r \in RunIds : Phase(runs[r].pc) = 1
    /\ files' # files => \E r \in RunIds : Phase(runs[r].pc) = 3
    /\ notifications' # notifications =>
          /\ \E r \in RunIds : runs[r].pc = "report" /\ runs'[r].pc = "done"
          /\ Len(notifications') = Len(notifications) + 1
          /\ udir' = udir /\ files' = files

\* every pass that has ended has handed over one report
C14_ReportStep ==
    Len(notifications') = Cardinality({r \in RunIds : Phase(runs'[r].pc) = 5})

\* C14: the steps of a pass come in a fixed order, all purging of folders
\* before any compaction of a file, and the sink receives exactly one
\* report of the pass, after its purging and compaction.
C14_RunOrder == [][C14_OrderStep /\ C14_ReportStep]_vars

\* the number of lines the rewrite drops from bytes
DroppedCount(bytes) ==
    Cardinality({i \in 1..Len(GetLines(bytes)) : IsDroppedLine(GetLines(bytes)[i])})

C15_Step ==
    /\ \A r \in RunIds :
          \* the count of a pass is the number of its labels
          /\ runs'[r].delete_item_count = Len(runs'[r].deleted_words)
          \* it grows by the lines dropped from the file compacted
          /\ runs'[r].delete_item_count =
                IF runs[r].pc = "copy" /\ runs'[r].pc = "remove"
                THEN runs[r].delete_item_count + DroppedCount(runs[r].inbuf)
                ELSE IF Phase(runs'[r].pc) \in {0, 5} \/ runs'[r].pc = "purge"
                THEN 0
                ELSE runs[r].delete_item_count
          \* and is handed over as it is, the folder count left out
          /\ (runs[r].pc = "report" /\ runs'[r].pc = "done") =>
                notifications'[Len(notifications')].delete_item_count =
                    runs[r].delete_item_count
    /\ \A k \in 1..Len(notifications') :
          notifications'[k].delete_item_count =
              Len(notifications'[k].deleted_words)

\* C15: the count handed to the sink is the number of labels reported and
\* the number of lines the pass dropped from the files it compacted; the
\* children deleted from folders are counted apart and add nothing to it.
C15_ReportedCount == [][C15_Step]_vars

C15_Witness ==
    \E k \in 1..Len(notifications) :
        /\ notifications[k].delete_item_count = 1
        /\ notifications[k].deleted_words = <<<<"v">>>>
        /\ notifications[k].cleaned_folders = <<FOLDER_A>>
        /\ udir[FOLDER_A].children = {"sub"}

====
